---- MODULE Spec2Model ----
(***************************************************************************)
(* pyramid_geoip: the GeoIPLookupUtility (lookup.py) and the update script *)
(* (update.py).  One engine instance, the Blob store, the local file       *)
(* system and the network are the state; every method is one action.  The  *)
(* calls that run in several threads of one process are taken statement by *)
(* statement in the specifications at the end.                             *)
(***************************************************************************)
EXTENDS Integers, Sequences, FiniteSets, TLC

VARIABLES settings, local, store, tempfiles,
          clients, databases, should_force_update, should_save, last, threads

vars == <<settings, local, store, tempfiles,
          clients, databases, should_force_update, should_save, last, threads>>

engine == <<clients, databases, should_force_update, should_save>>

(* ---------------------------------------------------------------------- *)
(* Bounds                                                                  *)
(* ---------------------------------------------------------------------- *)
\* longest address string given to lookup
MaxLen == 3
\* temporary files that may pile up on disk before the model stops provisioning
MaxTemp == 1

(* ---------------------------------------------------------------------- *)
(* Configuration                                                           *)
(* ---------------------------------------------------------------------- *)
IP_TYPES == <<"ip4", "ip6">>

Fields == {"name", "path", "url"}

\* the settings key 'geoip.cities_{0}_<field>'.format(item)
Key(item, field) == <<item, field>>

DEFAULTS ==
    [k \in {Key(i, f) : i \in {"ip4", "ip6"}, f \in Fields} |->
        CASE k = Key("ip4", "name") -> "GeoLiteCity"
          [] k = Key("ip4", "path") -> "vendor/GeoLiteCity.dat"
          [] k = Key("ip4", "url")  -> "stub/GeoLiteCity.dat.gz"
          [] k = Key("ip6", "name") -> "GeoLiteCityv6"
          [] k = Key("ip6", "path") -> "vendor/GeoLiteCityv6.dat"
          [] k = Key("ip6", "url")  -> "stub/GeoLiteCityv6-beta/GeoLiteCityv6.dat.gz"]

\* a caller-supplied defaults mapping that knows the ip4 family only
Ip4Defaults == [k \in {Key("ip4", f) : f \in Fields} |-> DEFAULTS[k]]

DefaultsChoices == {DEFAULTS, Ip4Defaults}

\* the ip_types argument lists the callers pass
IpTypesChoices ==
    {<<>>, <<"ip4">>, <<"ip6">>, <<"ip4", "ip6">>, <<"ip6", "ip4">>}

\* deployments: nothing configured; the names and urls of both families
\* configured (the class doctest); the three ip6 settings configured
NoSettings == [k \in {} |-> ""]

NameUrlSettings ==
    [k \in {Key(i, f) : i \in {"ip4", "ip6"}, f \in {"name", "url"}} |->
        CASE k = Key("ip4", "name") -> "GeoLiteCity"
          [] k = Key("ip4", "url")  -> "mirror/city4.dat"
          [] k = Key("ip6", "name") -> "GeoLiteCityv6"
          [] k = Key("ip6", "url")  -> "mirror/city6.dat.gz"]

Ip6Settings ==
    [k \in {Key("ip6", f) : f \in Fields} |->
        CASE k = Key("ip6", "name") -> "MyCityv6"
          [] k = Key("ip6", "path") -> "data/city6.dat"
          [] k = Key("ip6", "url")  -> "mirror/city6.dat.gz"]

SettingsChoices == {NoSettings, NameUrlSettings, Ip6Settings}

Names == {"GeoLiteCity", "GeoLiteCityv6", "MyCityv6"}
Paths == {"vendor/GeoLiteCity.dat", "vendor/GeoLiteCityv6.dat", "data/city6.dat"}

\* url.endswith('.gz')
EndsWithGz(url) ==
    url \in {"stub/GeoLiteCity.dat.gz",
             "stub/GeoLiteCityv6-beta/GeoLiteCityv6.dat.gz",
             "mirror/city6.dat.gz"}

(* ---------------------------------------------------------------------- *)
(* Database files and decoders                                             *)
(* ---------------------------------------------------------------------- *)
\* the bytes of a database: where they came from and which release they are
\* ("shipped" with the application, the "old" release cached before this run,
\* the "new" release the download site serves now)
Data(src, rel) == [src |-> src, rel |-> rel]

NoBlob == Data("", "")

\* the address family a database file covers
DbFamily(src) ==
    IF src \in {"vendor/GeoLiteCity.dat", "stub/GeoLiteCity.dat.gz",
                "mirror/city4.dat"}
    THEN "ip4" ELSE "ip6"

(* ---------------------------------------------------------------------- *)
(* Addresses                                                               *)
(* ---------------------------------------------------------------------- *)
\* "4" and "6" stand for the digits of an IPv4 and of an IPv6 address
Chars == {"4", "6", ",", " "}

Strs == UNION {[1..n -> Chars] : n \in 0..MaxLen}

\* the values a caller hands to lookup: None, a number, a string
None == [t |-> "none", s |-> <<>>]
Number == [t |-> "int", s |-> <<>>]
Str(s) == [t |-> "str", s |-> s]

Inputs == {None, Number} \cup {Str(s) : s \in Strs}

\* Python truth value of an input
Truthy(x) == (x.t = "int") \/ (x.t = "str" /\ x.s # <<>>)

\* hasattr(x, 'split')
HasSplit(x) == x.t = "str"

\* s.split(',')[0]
RECURSIVE SplitFirst(_)
SplitFirst(s) ==
    IF s = <<>> \/ Head(s) = "," THEN <<>>
    ELSE <<Head(s)>> \o SplitFirst(Tail(s))

RECURSIVE LStrip(_)
LStrip(s) == IF s # <<>> /\ Head(s) = " " THEN LStrip(Tail(s)) ELSE s

RECURSIVE RStrip(_)
RStrip(s) ==
    IF s # <<>> /\ s[Len(s)] = " " THEN RStrip(SubSeq(s, 1, Len(s) - 1)) ELSE s

StripLeftOnly(s) == LStrip(s)

\* s.strip()
Strip(s) == RStrip(LStrip(s))

ShouldNormalizeAnyTruthy(x) == Truthy(x)

\* the test of lookup.py 127
ShouldNormalize(x) == Truthy(x) /\ HasSplit(x)

\* ip_address.split(',')[0].strip(), an AttributeError for a value that has
\* no split method
SplitStrip(x) ==
    IF HasSplit(x) THEN [raised |-> FALSE, v |-> Str(Strip(SplitFirst(x.s)))]
    ELSE [raised |-> TRUE, v |-> x]

\* lookup.py 127-128
Normalize(x) ==
    IF ShouldNormalize(x) THEN SplitStrip(x) ELSE [raised |-> FALSE, v |-> x]

\* the family of a well-formed address, "" for anything else
AddrFamily(x) ==
    IF x.t # "str" \/ x.s = <<>> THEN ""
    ELSE IF \A i \in 1..Len(x.s) : x.s[i] = "4" THEN "ip4"
    ELSE IF \A i \in 1..Len(x.s) : x.s[i] = "6" THEN "ip6"
    ELSE ""

EmptyRecord == [empty |-> TRUE, db |-> NoBlob, addr |-> None]

\* client.record_by_addr(addr): a decoder resolves the addresses of its own
\* family and raises for everything else
RecordByAddr(client, addr) ==
    IF AddrFamily(addr) = DbFamily(client.data.src)
    THEN [raised |-> FALSE,
          value |-> [empty |-> FALSE, db |-> client.data, addr |-> addr]]
    ELSE [raised |-> TRUE, value |-> EmptyRecord]

TryClientsStopOnRaise(cs, i, addr, calls) ==
    IF i > Len(cs)
    THEN [raised |-> FALSE, value |-> EmptyRecord, calls |-> calls]
    ELSE LET r == RecordByAddr(cs[i], addr)
             c == Append(calls, [client |-> i, addr |-> addr, raised |-> r.raised])
         IN [raised |-> FALSE, value |-> r.value, calls |-> c]

\* the loop of lookup.py 130-135 from decoder i on; calls is the list of
\* record_by_addr calls made so far
RECURSIVE TryClients(_, _, _, _)
TryClients(cs, i, addr, calls) ==
    IF i > Len(cs)
    THEN [raised |-> FALSE, value |-> EmptyRecord, calls |-> calls]
    ELSE LET r == RecordByAddr(cs[i], addr)
             c == Append(calls, [client |-> i, addr |-> addr, raised |-> r.raised])
         IN IF r.raised THEN TryClients(cs, i + 1, addr, c)
            ELSE [raised |-> FALSE, value |-> r.value, calls |-> c]

\* GeoIPLookupUtility.lookup
Lookup(cs, ip_address) ==
    LET n == Normalize(ip_address)
    IN IF n.raised
       THEN [raised |-> TRUE, value |-> EmptyRecord, calls |-> <<>>]
       ELSE TryClients(cs, 1, n.v, <<>>)

(* ---------------------------------------------------------------------- *)
(* Provisioning                                                            *)
(* ---------------------------------------------------------------------- *)
\* what the outside world does during one make_geoip call: which step fails
\* (the download, writing the temporary file, loading the database)
Choice == [fail : {"none", "fetch", "temp", "open"}]

Event(ev, arg) == [ev |-> ev, arg |-> arg, unzip |-> FALSE]

FetchEvent(url) == [ev |-> "update_from_url", arg |-> url, unzip |-> EndsWithGz(url)]

\* how many events of one kind a call made
RECURSIVE Count(_, _)
Count(events, ev) ==
    IF events = <<>> THEN 0
    ELSE (IF Head(events).ev = ev THEN 1 ELSE 0) + Count(Tail(events), ev)

ShouldFetchMissingOnly(is_new, force) == is_new

ShouldFetchForcedOnly(is_new, force) == force

ShouldFetchAlways(is_new, force) == TRUE

\* the test of lookup.py 176: fetch a new blob, or any blob under force
ShouldFetch(is_new, force) == is_new \/ force

ShouldSaveWhenForced(save, force) == save \/ force

ShouldSaveNever(save, force) == FALSE

\* the test of lookup.py 178: the engine's should_save alone decides
ShouldSave(save, force) == save

\* GeoIPLookupUtility.get_blob on the store st; the result carries the
\* blob's content, the calls made on the Blob store and whether save ran
GetBlob(name, url, o, st, force, save) ==
    LET is_new == st[name] = NoBlob
        e1 == <<Event("query", name)>>
                 \o (IF is_new THEN <<Event("factory", name)>> ELSE <<>>)
    IN IF ShouldFetch(is_new, force)
       THEN IF o.fail = "fetch"
            THEN [raised |-> TRUE, data |-> NoBlob, saved |-> FALSE,
                  events |-> Append(e1, FetchEvent(url))]
            ELSE [raised |-> FALSE, data |-> Data(url, "new"),
                  saved |-> ShouldSave(save, force),
                  events |-> Append(e1, FetchEvent(url))
                     \o (IF ShouldSave(save, force)
                         THEN <<Event("save", name)>> ELSE <<>>)]
       ELSE [raised |-> FALSE, data |-> st[name], saved |-> FALSE, events |-> e1]

UseLocalInverted(path) == path \notin local

\* the test of lookup.py 187
UseLocal(path) == path \in local

\* GeoIPLookupUtility.make_geoip on the store st with temps temporary files
\* on disk.  The transaction of line 191 commits a saved blob when the block
\* is left normally and rolls it back when the block raises.
MakeGeoip(name, path, url, o, st, temps, force, save) ==
    LET rec == [name |-> name, path |-> path, url |-> url,
                local_exists |-> path \in local, blob_before |-> st[name],
                force |-> force, save |-> save]
        e0 == <<Event("exists", path)>>
    IN IF UseLocal(path)
       THEN LET ev == Append(e0, Event("geoip_cls", path))
            IN IF o.fail = "open"
               THEN [raised |-> TRUE, error |-> "open", store |-> st, temps |-> temps,
                     client |-> [temp |-> FALSE, file |-> path, data |-> NoBlob],
                     prov |-> rec @@ [events |-> ev, raised |-> TRUE,
                                      materialized |-> NoBlob]]
               ELSE [raised |-> FALSE, error |-> "", store |-> st, temps |-> temps,
                     client |-> [temp |-> FALSE, file |-> path,
                                 data |-> Data(path, "shipped")],
                     prov |-> rec @@ [events |-> ev, raised |-> FALSE,
                                      materialized |-> NoBlob]]
       ELSE LET b == GetBlob(name, url, o, st, force, save)
                e1 == e0 \o b.events
                e2 == Append(e1, Event("get_as_named_tempfile", name))
                e3 == Append(e2, Event("geoip_cls", name))
                committed == IF b.saved THEN [st EXCEPT ![name] = b.data] ELSE st
            IN IF b.raised
               THEN [raised |-> TRUE, error |-> "fetch", store |-> st, temps |-> temps,
                     client |-> [temp |-> TRUE, file |-> name, data |-> NoBlob],
                     prov |-> rec @@ [events |-> e1, raised |-> TRUE,
                                      materialized |-> NoBlob]]
               ELSE IF o.fail = "temp"
               THEN [raised |-> TRUE, error |-> "temp", store |-> st, temps |-> temps,
                     client |-> [temp |-> TRUE, file |-> name, data |-> NoBlob],
                     prov |-> rec @@ [events |-> e2, raised |-> TRUE,
                                      materialized |-> NoBlob]]
               ELSE IF o.fail = "open"
               THEN [raised |-> TRUE, error |-> "open", store |-> committed,
                     temps |-> temps + 1,
                     client |-> [temp |-> TRUE, file |-> name, data |-> NoBlob],
                     prov |-> rec @@ [events |-> e3, raised |-> TRUE,
                                      materialized |-> b.data]]
               ELSE [raised |-> FALSE, error |-> "", store |-> committed,
                     temps |-> temps,
                     client |-> [temp |-> TRUE, file |-> name, data |-> b.data],
                     prov |-> rec @@ [events |-> Append(e3, Event("unlink", name)),
                                      raised |-> FALSE, materialized |-> b.data]]

\* self.settings.get(key, defaults[key]); the caller has checked that
\* defaults[key] exists, which Python evaluates before the call
SettingsGet(key, defaults) ==
    IF key \in DOMAIN settings THEN settings[key] ELSE defaults[key]

\* the loop body of setup_clients (lookup.py 214-225) from item i on; acc is
\* the engine and its surroundings so far
RECURSIVE SetupLoop(_, _, _, _, _)
SetupLoop(i, acc, ip_types, defaults, oracle) ==
    IF i > Len(ip_types) THEN acc
    ELSE LET item == ip_types[i]
         IN IF \E f \in Fields : Key(item, f) \notin DOMAIN defaults
            THEN [acc EXCEPT !.raised = TRUE, !.error = "KeyError"]
            ELSE LET name == SettingsGet(Key(item, "name"), defaults)
                     path == SettingsGet(Key(item, "path"), defaults)
                     url == SettingsGet(Key(item, "url"), defaults)
                     dbs == Append(acc.databases,
                                   [name |-> name, path |-> path, url |-> url])
                     m == MakeGeoip(name, path, url, oracle[i], acc.store,
                                    acc.temps, acc.force, acc.save)
                     nxt == [acc EXCEPT !.databases = dbs, !.store = m.store,
                                        !.temps = m.temps,
                                        !.provs = Append(@, m.prov)]
                 IN IF m.raised
                    THEN [nxt EXCEPT !.raised = TRUE, !.error = m.error]
                    ELSE SetupLoop(i + 1,
                                   [nxt EXCEPT !.clients = Append(@, m.client)],
                                   ip_types, defaults, oracle)

StartKeep(cs) == cs

\* the lists setup_clients starts from (lookup.py 212-213)
StartEmpty(cs) == <<>>

\* GeoIPLookupUtility.setup_clients run on an engine with the given flags
SetupRun(cs, dbs, force, save, st, temps, ip_types, defaults, oracle) ==
    SetupLoop(1,
              [clients |-> StartEmpty(cs), databases |-> StartEmpty(dbs),
               force |-> force, save |-> save, store |-> st, temps |-> temps,
               provs |-> <<>>, raised |-> FALSE, error |-> ""],
              ip_types, defaults, oracle)

(* ---------------------------------------------------------------------- *)
(* Threads                                                                 *)
(* ---------------------------------------------------------------------- *)
\* the threads of the serving process that call into the one engine
Threads == {"t1", "t2"}

NoDescriptor == [name |-> "", path |-> "", url |-> ""]

NoClient == [temp |-> FALSE, file |-> "", data |-> NoBlob]

\* the frame of a thread: where it stands in its call (pc), the call's
\* argument, its local variables (ip_address; item index, descriptor and
\* client of setup_clients) and what it returned
IdleThread ==
    [pc |-> "idle", op |-> "", input |-> None, ip_address |-> None, i |-> 0,
     value |-> EmptyRecord, calls |-> <<>>, raised |-> FALSE, error |-> "",
     item |-> NoDescriptor, client |-> NoClient, provisions |-> 0]

NoThreads == [t \in Threads |-> IdleThread]

(* ---------------------------------------------------------------------- *)
(* The operations                                                          *)
(* ---------------------------------------------------------------------- *)
\* the record of the last call: its arguments, whether it raised, what it
\* returned and the calls it made on its collaborators; after_empty_setup
\* tells that the call before it on this engine was a setup_clients with no
\* family
Call(op) ==
    [op |-> op, raised |-> FALSE, error |-> "", was_populated |-> FALSE,
     ip_types |-> <<>>, input |-> None, value |-> EmptyRecord,
     calls |-> <<>>, provs |-> <<>>, after_empty_setup |-> FALSE]

\* no call is in progress: the caller has the result of the last one
Idle == last.op = "idle"

GuardMessage == "Must not call force_update after setup_clients"

\* the blob a name holds when it was cached before this run
Seeded(name) ==
    Data(CASE name = "GeoLiteCity" -> "stub/GeoLiteCity.dat.gz"
           [] name = "GeoLiteCityv6" -> "stub/GeoLiteCityv6-beta/GeoLiteCityv6.dat.gz"
           [] OTHER -> "mirror/city6.dat.gz", "old")

\* the names and paths the bound settings resolve to
UsedNames == {SettingsGet(Key(i, "name"), DEFAULTS) : i \in {"ip4", "ip6"}}

UsedPaths == {SettingsGet(Key(i, "path"), DEFAULTS) : i \in {"ip4", "ip6"}}

\* GeoIPLookupUtility.__init__ for one deployment: bound settings, some local
\* files shipped, some blobs cached.  __init__ leaves databases unset, which
\* the empty list stands for.
Init ==
    /\ settings \in SettingsChoices
    /\ local \in SUBSET UsedPaths
    /\ store \in {st \in [Names -> {NoBlob} \cup {Seeded(n) : n \in Names}] :
                    \A n \in Names :
                       st[n] \in (IF n \in UsedNames THEN {NoBlob, Seeded(n)}
                                  ELSE {NoBlob})}
    /\ tempfiles = 0
    /\ clients = <<>>
    /\ databases = <<>>
    /\ should_force_update = FALSE
    /\ should_save \in BOOLEAN
    /\ last = Call("init")
    /\ threads = NoThreads

\* a new engine replaces the old one (a restart of the serving process)
Construct(save) ==
    /\ Idle
    /\ clients' = <<>>
    /\ databases' = <<>>
    /\ should_force_update' = FALSE
    /\ should_save' = save
    /\ last' = Call("init")
    /\ UNCHANGED <<threads, settings, local, store, tempfiles>>

AlreadySetUpBoth(cs) == Len(cs) > 1

AlreadySetUpAlways(cs) == TRUE

\* the test of lookup.py 228
AlreadySetUp(cs) == cs # <<>>

Apply(op, r, was, ip_types) ==
    /\ clients' = r.clients
    /\ databases' = r.databases
    /\ store' = r.store
    /\ tempfiles' = r.temps
    /\ last' = [Call(op) EXCEPT !.raised = r.raised, !.error = r.error,
                                !.was_populated = was, !.ip_types = ip_types,
                                !.provs = r.provs,
                                !.after_empty_setup = last.after_empty_setup]

\* geoip_lookup.setup_clients(ip_types, defaults)
SetupClients(ip_types, defaults, oracle) ==
    /\ Idle
    /\ tempfiles < MaxTemp
    /\ Apply("setup_clients",
             SetupRun(clients, databases, should_force_update, should_save,
                      store, tempfiles, ip_types, defaults, oracle),
             clients # <<>>, ip_types)
    /\ UNCHANGED <<threads, settings, local, should_force_update, should_save>>

ForcedOff == FALSE

\* the value force_update gives the flag (lookup.py 230)
Forced == TRUE

\* geoip_lookup.force_update()
ForceUpdate(oracle) ==
    /\ Idle
    /\ tempfiles < MaxTemp
    /\ IF AlreadySetUp(clients)
       THEN /\ last' = [Call("force_update") EXCEPT !.raised = TRUE,
                           !.error = GuardMessage,
                           !.was_populated = clients # <<>>,
                           !.after_empty_setup = last.after_empty_setup]
            /\ UNCHANGED <<clients, databases, store, tempfiles,
                           should_force_update>>
       ELSE /\ should_force_update' = Forced
            /\ Apply("force_update",
                     SetupRun(clients, databases, Forced, should_save,
                              store, tempfiles, IP_TYPES, DEFAULTS, oracle),
                     clients # <<>>, IP_TYPES)
    /\ UNCHANGED <<threads, settings, local, should_save>>

\* geoip_lookup.lookup(ip_address)
LookupCall(x) ==
    /\ Idle
    /\ LET r == Lookup(clients, x)
       IN last' = [Call("lookup") EXCEPT !.raised = r.raised, !.input = x,
                                         !.was_populated = clients # <<>>,
                                         !.value = r.value, !.calls = r.calls,
                                         !.after_empty_setup =
                                            last.after_empty_setup]
    /\ UNCHANGED <<threads, settings, local, store, tempfiles, engine>>

\* update.main(): an engine of its own, built with should_save=True, runs
\* force_update and is dropped when the script exits
Main(oracle) ==
    /\ Idle
    /\ tempfiles < MaxTemp
    /\ LET r == SetupRun(<<>>, <<>>, TRUE, TRUE, store, tempfiles,
                         IP_TYPES, DEFAULTS, oracle)
       IN /\ store' = r.store
          /\ tempfiles' = r.temps
          /\ last' = [Call("main") EXCEPT !.raised = r.raised, !.error = r.error,
                                          !.ip_types = IP_TYPES, !.provs = r.provs,
                                          !.after_empty_setup =
                                             last.after_empty_setup]
    /\ UNCHANGED <<threads, settings, local, engine>>

\* the call returns (or its exception reaches the caller); main ran on an
\* engine of its own
Return ==
    /\ ~Idle
    /\ last' = [Call("idle") EXCEPT !.after_empty_setup =
                    IF last.op = "main" THEN last.after_empty_setup
                    ELSE last.op = "setup_clients" /\ last.ip_types = <<>>]
    /\ UNCHANGED <<threads, settings, local, store, tempfiles, engine>>

Oracles(n) == [1..n -> Choice]

\* the addresses the serving process is probed with
ProbeInputs ==
    {None, Number, Str(<<>>), Str(<<"4">>), Str(<<"6">>), Str(<<"4", "6">>),
     Str(<<"6", ",", " ", "4">>), Str(<<" ", "4", " ", ",", "6">>)}

Next ==
    \/ \E save \in BOOLEAN : Construct(save)
    \/ \E ip_types \in IpTypesChoices, defaults \in DefaultsChoices :
          \E oracle \in Oracles(Len(ip_types)) :
             SetupClients(ip_types, defaults, oracle)
    \/ \E oracle \in Oracles(Len(IP_TYPES)) : ForceUpdate(oracle)
    \/ \E x \in ProbeInputs : LookupCall(x)
    \/ \E oracle \in Oracles(Len(IP_TYPES)) : Main(oracle)
    \/ Return

Spec == Init /\ [][Next]_vars

(* ---------------------------------------------------------------------- *)
(* lookup on its own, as the doctest of lookup.py 92-107 runs it: an       *)
(* engine built from empty settings whose clients are assigned directly    *)
(* ---------------------------------------------------------------------- *)
Decoder(src, rel) == [temp |-> rel # "shipped", file |-> src, data |-> Data(src, rel)]

Decoders ==
    {Decoder("vendor/GeoLiteCity.dat", "shipped"),
     Decoder("stub/GeoLiteCity.dat.gz", "new"),
     Decoder("vendor/GeoLiteCityv6.dat", "shipped"),
     Decoder("stub/GeoLiteCityv6-beta/GeoLiteCityv6.dat.gz", "old")}

ClientLists == UNION {[1..n -> Decoders] : n \in 0..Len(IP_TYPES)}

InitLookup ==
    /\ settings = NoSettings
    /\ local = {}
    /\ store = [n \in Names |-> NoBlob]
    /\ tempfiles = 0
    /\ clients \in ClientLists
    /\ databases = <<>>
    /\ should_force_update = FALSE
    /\ should_save = TRUE
    /\ last = Call("idle")
    /\ threads = NoThreads

NextLookup ==
    \/ \E x \in Inputs : LookupCall(x)
    \/ Return

SpecLookup == InitLookup /\ [][NextLookup]_vars

(* ---------------------------------------------------------------------- *)
(* Properties                                                              *)
(* ---------------------------------------------------------------------- *)
Provisioning == last.op \in {"setup_clients", "force_update", "main"}

\* the make_geoip calls of the last call
Provs == {last.provs[i] : i \in 1..Len(last.provs)}

Fetches(p) == Count(p.events, "update_from_url")

BlobStoreEvents ==
    {"query", "factory", "update_from_url", "save", "get_as_named_tempfile",
     "unlink"}

\* C1: setup_clients called on an engine whose clients list is non-empty
\* always raises and provisions nothing.
C1_SetupOnPopulatedRaises ==
    (last.op = "setup_clients" /\ last.was_populated)
        => (last.raised /\ last.provs = <<>>)

\* C2: force_update called on an engine whose clients list is non-empty
\* raises, provisions nothing and leaves clients, databases, the force flag,
\* the Blob store and the temporary files as they were.
C2_ForceUpdateOnPopulatedRaises ==
    [][(Idle /\ last'.op = "force_update" /\ clients # <<>>)
          => /\ last'.raised
             /\ last'.provs = <<>>
             /\ UNCHANGED <<clients, databases, should_force_update,
                            store, tempfiles>>]_vars

C2_Witness ==
    /\ last.op = "force_update"
    /\ last.was_populated
    /\ last.raised
    /\ should_force_update

\* C3: lookup never raises, whatever the input and the state of the engine;
\* when no decoder answered (each raised, or there is none) it returns the
\* empty record.
C3_LookupNeverRaises ==
    last.op = "lookup"
        => /\ ~last.raised
           /\ (\A i \in 1..Len(last.calls) : last.calls[i].raised)
                 => last.value = EmptyRecord

C3_Witness ==
    /\ last.op = "lookup"
    /\ last.input = Number
    /\ Len(clients) = 1
    /\ Len(databases) = 2
    /\ Len(last.calls) = 1
    /\ last.value = EmptyRecord

\* the decoders that resolve an address
Resolving(addr) == {i \in 1..Len(clients) : ~RecordByAddr(clients[i], addr).raised}

\* C4: lookup asks the decoders in the order of the clients list, skips the
\* ones that raise, returns the record of the first one that does not and
\* asks no decoder after it.
C4_FirstSuccessWins ==
    (last.op = "lookup" /\ clients # <<>>)
        => LET n == Len(last.calls)
               addr == last.calls[1].addr
               ok == Resolving(addr)
               first == IF ok = {} THEN Len(clients)
                        ELSE CHOOSE i \in ok : \A j \in ok : i <= j
           IN /\ n = first
              /\ \A j \in 1..n : /\ last.calls[j].client = j
                                 /\ last.calls[j].addr = addr
                                 /\ last.calls[j].raised = (j \notin ok)
              /\ last.value = IF ok = {} THEN EmptyRecord
                              ELSE RecordByAddr(clients[first], addr).value

C4_Witness ==
    /\ last.op = "lookup"
    /\ Len(last.calls) = 2
    /\ last.calls[1].raised
    /\ ~last.calls[2].raised
    /\ last.value.db = clients[2].data

\* the part of s before its first comma, without the blanks around it
FirstSegmentTrimmed(s) ==
    LET commas == {i \in 1..Len(s) : s[i] = ","}
        stop == IF commas = {} THEN Len(s) + 1
                ELSE CHOOSE i \in commas : \A j \in commas : i <= j
        solid == {i \in 1..(stop - 1) : s[i] # " "}
    IN IF solid = {} THEN <<>>
       ELSE LET a == CHOOSE i \in solid : \A j \in solid : i <= j
                b == CHOOSE i \in solid : \A j \in solid : i >= j
            IN SubSeq(s, a, b)

\* C5: lookup of a string returns what lookup of its trimmed first segment
\* returns, and asks every decoder it asks for that trimmed first segment.
C5_CommaListAsFirstSegment ==
    (last.op = "lookup" /\ last.input.t = "str")
        => LET first == Str(FirstSegmentTrimmed(last.input.s))
               alone == Lookup(clients, first)
           IN /\ last.value = alone.value
              /\ last.raised = alone.raised
              /\ Len(last.calls) = Len(alone.calls)
              /\ \A i \in 1..Len(last.calls) :
                    /\ last.calls[i].addr = first
                    /\ alone.calls[i].addr = first

C5_Witness ==
    /\ last.op = "lookup"
    /\ last.input = Str(<<"6", " ", ",">>)
    /\ Len(last.calls) = 2
    /\ ~last.value.empty

\* C6: a make_geoip call that finds the local file makes no call on the Blob
\* store, downloads nothing and writes no temporary file, forced or not.
C6_LocalFileFirst ==
    Provisioning
        => \A p \in Provs :
              p.local_exists
                 => /\ \A i \in 1..Len(p.events) :
                          p.events[i].ev \notin BlobStoreEvents
                    /\ p.materialized = NoBlob

C6_Witness ==
    /\ last.op = "setup_clients"
    /\ \E p \in Provs : p.local_exists /\ p.force /\ p.blob_before = NoBlob
                        /\ ~p.raised

\* C7 as written: under force-refresh every make_geoip call downloads
\* exactly once.
C7_ForcedFetchesOnce ==
    Provisioning => \A p \in Provs : p.force => Fetches(p) = 1

\* C7: under force-refresh a make_geoip call that does not find the local
\* file downloads exactly once, from the descriptor's url, also when a blob
\* of that name is cached.
C7_ForcedFetchesOnceWithoutLocalFile ==
    Provisioning
        => \A p \in Provs :
              (p.force /\ ~p.local_exists)
                 => /\ Fetches(p) = 1
                    /\ \A i \in 1..Len(p.events) :
                          p.events[i].ev = "update_from_url"
                             => p.events[i].arg = p.url

C7_Witness ==
    /\ last.op = "force_update"
    /\ \E p \in Provs : /\ p.force /\ ~p.local_exists /\ ~p.raised
                        /\ p.blob_before # NoBlob
                        /\ Fetches(p) = 1

\* C8: a make_geoip call that finds neither the local file nor a blob of the
\* descriptor's name creates one blob of that name and downloads into it
\* once, from the descriptor's url.
C8_MissingBlobCreatedAndFetchedOnce ==
    Provisioning
        => \A p \in Provs :
              (~p.local_exists /\ p.blob_before = NoBlob)
                 => /\ Count(p.events, "factory") = 1
                    /\ Fetches(p) = 1
                    /\ \A i \in 1..Len(p.events) :
                          /\ p.events[i].ev = "factory"
                                => p.events[i].arg = p.name
                          /\ p.events[i].ev = "update_from_url"
                                => p.events[i].arg = p.url

C8_Witness ==
    /\ last.op = "setup_clients"
    /\ \E p \in Provs : /\ ~p.local_exists /\ p.blob_before = NoBlob
                        /\ ~p.force /\ ~p.raised
                        /\ p.materialized = Data(p.url, "new")

\* C9: a make_geoip call without force-refresh that finds a cached blob
\* downloads nothing, creates and saves no blob, leaves the stored blob as it
\* was and loads the decoder from the stored content.
C9_CachedBlobNotRefetched ==
    Provisioning
        => \A p \in Provs :
              (p.blob_before # NoBlob /\ ~p.force)
                 => /\ Fetches(p) = 0
                    /\ Count(p.events, "save") = 0
                    /\ Count(p.events, "factory") = 0
                    /\ store[p.name] = p.blob_before
                    /\ (~p.local_exists /\ Count(p.events, "geoip_cls") = 1)
                          => p.materialized = p.blob_before

C9_Witness ==
    /\ last.op = "setup_clients"
    /\ \E p \in Provs : /\ ~p.local_exists /\ p.blob_before # NoBlob
                        /\ ~p.force /\ ~p.raised
                        /\ p.materialized = p.blob_before
                        /\ clients[Len(clients)].data = p.blob_before

\* C10: a setup that fails while provisioning or opening a decoder leaves
\* the engine without decoders, never with those of some families only.
C10_NoPartialDecoderSet ==
    (last.op \in {"setup_clients", "force_update"}
        /\ last.error \in {"fetch", "temp", "open"})
        => clients = <<>>

\* C11: a temporary file that make_geoip writes is deleted once geoip_cls has
\* been called on it, whether geoip_cls returned or raised, so no temporary
\* file is left on disk after the call.
C11_TempFileAlwaysDeleted ==
    /\ tempfiles = 0
    /\ Provisioning
          => \A p \in Provs :
                p.materialized # NoBlob => Count(p.events, "unlink") = 1

\* C12: after a setup that returned, clients, databases and the ip_types
\* argument have the same length, the i-th descriptor is the one the i-th
\* family resolves to and the i-th decoder was loaded from the file
\* provisioned for it.
C12_OneDecoderPerFamily ==
    (last.op \in {"setup_clients", "force_update"} /\ ~last.raised)
        => /\ Len(clients) = Len(last.ip_types)
           /\ Len(databases) = Len(last.ip_types)
           /\ Len(last.provs) = Len(last.ip_types)
           /\ \A i \in 1..Len(last.ip_types) :
                 LET d == databases[i]
                     c == clients[i]
                     p == last.provs[i]
                 IN /\ d = [f \in Fields |->
                              SettingsGet(Key(last.ip_types[i], f), DEFAULTS)]
                    /\ p.name = d.name /\ p.path = d.path /\ p.url = d.url
                    /\ c.temp = ~p.local_exists
                    /\ c.file = (IF p.local_exists THEN d.path ELSE d.name)
                    /\ c.data = (IF p.local_exists THEN Data(d.path, "shipped")
                                 ELSE p.materialized)

C12_Witness ==
    /\ last.op = "setup_clients"
    /\ ~last.raised
    /\ last.was_populated
    /\ last.ip_types = <<"ip6", "ip4">>
    /\ clients[1].temp
    /\ ~clients[2].temp

\* C13: a step of the same engine instance never takes a non-empty clients
\* list to the empty one.
C13_PopulatedStaysPopulated ==
    [][(clients # <<>> /\ last'.op # "init") => clients' # <<>>]_vars

\* C14: make_geoip calls save only when the engine was built with
\* should_save, whatever the force flag: an engine without should_save never
\* calls save, forced or not, and an engine with should_save saves every
\* blob it downloads.
C14_SaveOnlyWhenShouldSave ==
    (last.op \in {"setup_clients", "force_update"})
        => \A p \in Provs :
              /\ p.save = should_save
              /\ (~should_save)
                    => Count(p.events, "save") = 0
              /\ (should_save /\ Fetches(p) = 1
                     /\ Count(p.events, "get_as_named_tempfile") = 1)
                    => Count(p.events, "save") = 1

C14_Witness ==
    /\ last.op = "force_update"
    /\ ~should_save
    /\ \E p \in Provs : /\ p.force /\ Fetches(p) = 1 /\ ~p.raised
                        /\ p.blob_before # NoBlob
                        /\ Count(p.events, "save") = 0
                        /\ p.materialized = Data(p.url, "new")

(* ---------------------------------------------------------------------- *)
(* Serving: the threads of the serving process call lookup on the engine   *)
(* that includeme has set up, one statement at a time                      *)
(* ---------------------------------------------------------------------- *)
Untouched == <<settings, local, store, tempfiles, engine, last>>

AddrSlotShared(t) == "t1"

\* where thread t keeps ip_address: a local variable of its own call
\* (lookup.py 87, 128)
AddrSlot(t) == t

\* thread t calls lookup(x) and runs lines 127-128
LookupBegin(t, x) ==
    /\ threads[t].pc = "idle"
    /\ LET n == Normalize(x)
           began == [IdleThread EXCEPT !.op = "lookup", !.input = x, !.i = 1,
                                       !.pc = IF n.raised THEN "done" ELSE "loop",
                                       !.raised = n.raised]
           framed == [threads EXCEPT ![t] = began]
       IN threads' = [framed EXCEPT ![AddrSlot(t)].ip_address = n.v]
    /\ UNCHANGED Untouched

\* thread t runs one round of the loop of lines 130-135
LookupTry(t) ==
    /\ threads[t].pc = "loop"
    /\ threads[t].op = "lookup"
    /\ LET me == threads[t]
           addr == threads[AddrSlot(t)].ip_address
       IN IF me.i > Len(clients)
          THEN threads' = [threads EXCEPT ![t].pc = "done",
                                          ![t].value = EmptyRecord]
          ELSE LET r == RecordByAddr(clients[me.i], addr)
                   c == Append(me.calls, [client |-> me.i, addr |-> addr,
                                          raised |-> r.raised])
               IN IF r.raised
                  THEN threads' = [threads EXCEPT ![t].i = me.i + 1,
                                                  ![t].calls = c]
                  ELSE threads' = [threads EXCEPT ![t].pc = "done",
                                                  ![t].value = r.value,
                                                  ![t].calls = c]
    /\ UNCHANGED Untouched

\* the caller of thread t takes the result
LookupReturn(t) ==
    /\ threads[t].pc = "done"
    /\ threads[t].op = "lookup"
    /\ threads' = [threads EXCEPT ![t] = IdleThread]
    /\ UNCHANGED Untouched

NoFailure == [i \in 1..Len(IP_TYPES) |-> [fail |-> "none"]]

\* the engine after includeme: built with the default should_save, set up
\* once for some families with nothing cached beforehand
InitServing ==
    /\ settings \in SettingsChoices
    /\ local \in SUBSET UsedPaths
    /\ \E ip_types \in IpTypesChoices :
          LET r == SetupRun(<<>>, <<>>, FALSE, TRUE, [n \in Names |-> NoBlob],
                            0, ip_types, DEFAULTS, NoFailure)
          IN /\ clients = r.clients
             /\ databases = r.databases
             /\ store = r.store
             /\ tempfiles = r.temps
    /\ should_force_update = FALSE
    /\ should_save = TRUE
    /\ last = Call("idle")
    /\ threads = NoThreads

NextServing ==
    \/ \E t \in Threads, x \in ProbeInputs : LookupBegin(t, x)
    \/ \E t \in Threads : LookupTry(t)
    \/ \E t \in Threads : LookupReturn(t)

SpecServing == InitServing /\ [][NextServing]_vars

\* C15: with setup done, lookup calls of several threads, interleaved
\* statement by statement, leave the engine, the Blob store and the files
\* alone, and each returns the record and makes the decoder calls of the
\* same lookup run on its own.
C15_ConcurrentLookupsOnlyRead ==
    /\ [](\A t \in Threads :
             (threads[t].pc = "done" /\ threads[t].op = "lookup")
                => LET alone == Lookup(clients, threads[t].input)
                   IN /\ ~threads[t].raised
                      /\ threads[t].value = alone.value
                      /\ threads[t].calls = alone.calls)
    /\ [][UNCHANGED <<clients, databases, should_force_update, should_save,
                      store, tempfiles, local, settings>>]_vars

C15_Witness ==
    /\ threads["t1"].pc = "done"
    /\ threads["t1"].input = Str(<<"6", ",", " ", "4">>)
    /\ Len(threads["t1"].calls) = 2
    /\ ~threads["t1"].value.empty
    /\ threads["t2"].pc = "loop"
    /\ threads["t2"].input = Str(<<"4", "6">>)
    /\ threads["t2"].i = 2

(* ---------------------------------------------------------------------- *)
(* Setting up: threads call setup_clients() and force_update() on one      *)
(* engine, one statement at a time                                         *)
(* ---------------------------------------------------------------------- *)
SetupOps == {"setup_clients", "force_update"}

\* thread t enters setup_clients() or force_update()
SetupBegin(t, op) ==
    /\ threads[t].pc = "idle"
    /\ threads' = [threads EXCEPT ![t] =
                      [IdleThread EXCEPT !.op = op,
                                         !.pc = IF op = "force_update"
                                                THEN "guard" ELSE "clients"]]
    /\ UNCHANGED Untouched

\* lookup.py 228-229
ForceGuard(t) ==
    /\ threads[t].pc = "guard"
    /\ threads' = IF AlreadySetUp(clients)
                  THEN [threads EXCEPT ![t].pc = "done", ![t].raised = TRUE,
                           ![t].error = GuardMessage]
                  ELSE [threads EXCEPT ![t].pc = "flag"]
    /\ UNCHANGED Untouched

\* lookup.py 230
ForceFlag(t) ==
    /\ threads[t].pc = "flag"
    /\ should_force_update' = Forced
    /\ threads' = [threads EXCEPT ![t].pc = "clients"]
    /\ UNCHANGED <<settings, local, store, tempfiles, clients, databases,
                   should_save, last>>

\* lookup.py 212
ResetClients(t) ==
    /\ threads[t].pc = "clients"
    /\ clients' = StartEmpty(clients)
    /\ threads' = [threads EXCEPT ![t].pc = "databases"]
    /\ UNCHANGED <<settings, local, store, tempfiles, databases,
                   should_force_update, should_save, last>>

\* lookup.py 213, and the loop starts
ResetDatabases(t) ==
    /\ threads[t].pc = "databases"
    /\ databases' = StartEmpty(databases)
    /\ threads' = [threads EXCEPT ![t].pc = "item", ![t].i = 1]
    /\ UNCHANGED <<settings, local, store, tempfiles, clients,
                   should_force_update, should_save, last>>

\* lookup.py 214-222 for the next family, or the loop is over
SetupItem(t) ==
    /\ threads[t].pc = "item"
    /\ LET me == threads[t]
       IN IF me.i > Len(IP_TYPES)
          THEN /\ threads' = [threads EXCEPT ![t].pc = "done"]
               /\ UNCHANGED databases
          ELSE LET d == [f \in Fields |->
                            SettingsGet(Key(IP_TYPES[me.i], f), DEFAULTS)]
               IN /\ databases' = Append(databases, d)
                  /\ threads' = [threads EXCEPT ![t].pc = "make", ![t].item = d]
    /\ UNCHANGED <<settings, local, store, tempfiles, clients,
                   should_force_update, should_save, last>>

\* lookup.py 224
SetupMake(t, o) ==
    /\ threads[t].pc = "make"
    /\ tempfiles < MaxTemp
    /\ LET me == threads[t]
           m == MakeGeoip(me.item.name, me.item.path, me.item.url, o, store,
                          tempfiles, should_force_update, should_save)
       IN /\ store' = m.store
          /\ tempfiles' = m.temps
          /\ threads' = IF m.raised
                        THEN [threads EXCEPT ![t].pc = "done",
                                             ![t].raised = TRUE,
                                             ![t].error = m.error,
                                             ![t].provisions = @ + 1]
                        ELSE [threads EXCEPT ![t].pc = "append",
                                             ![t].client = m.client,
                                             ![t].provisions = @ + 1]
    /\ UNCHANGED <<settings, local, engine, last>>

\* lookup.py 225
SetupAppend(t) ==
    /\ threads[t].pc = "append"
    /\ clients' = Append(clients, threads[t].client)
    /\ threads' = [threads EXCEPT ![t].pc = "item", ![t].i = @ + 1]
    /\ UNCHANGED <<settings, local, store, tempfiles, databases,
                   should_force_update, should_save, last>>

\* a fresh engine, nothing cached, the threads about to call
InitSetups ==
    /\ settings = NoSettings
    /\ local \in SUBSET UsedPaths
    /\ store = [n \in Names |-> NoBlob]
    /\ tempfiles = 0
    /\ clients = <<>>
    /\ databases = <<>>
    /\ should_force_update = FALSE
    /\ should_save \in BOOLEAN
    /\ last = Call("idle")
    /\ threads = NoThreads

NextSetups ==
    \/ \E t \in Threads, op \in SetupOps : SetupBegin(t, op)
    \/ \E t \in Threads : ForceGuard(t)
    \/ \E t \in Threads : ForceFlag(t)
    \/ \E t \in Threads : ResetClients(t)
    \/ \E t \in Threads : ResetDatabases(t)
    \/ \E t \in Threads : SetupItem(t)
    \/ \E t \in Threads, o \in Choice : SetupMake(t, o)
    \/ \E t \in Threads : SetupAppend(t)

SpecSetups == InitSetups /\ [][NextSetups]_vars

\* C16: when two setup calls on one engine, interleaved in any way, have
\* both ended, at most one of them has provisioned anything, and unless a
\* download or a decoder failed the engine holds one decoder and one
\* descriptor per family.
C16_ConcurrentSetupsGuarded ==
    (\A t \in Threads : threads[t].pc = "done" /\ threads[t].op \in SetupOps)
        => /\ Cardinality({t \in Threads : threads[t].provisions > 0}) <= 1
           /\ (\A t \in Threads : threads[t].error \notin {"fetch", "temp", "open"})
                 => /\ Len(clients) = Len(IP_TYPES)
                    /\ Len(databases) = Len(IP_TYPES)

\* the Blob store holds a blob under every name the settings resolve to
Stored == \A n \in UsedNames : store[n] # NoBlob

\* C17: once update.main() has returned normally with no local file present
\* the Blob store holds a blob for every family; it keeps them from then on,
\* and a setup_clients of an engine whose force flag is off, started from
\* such a store, downloads nothing.  main() leaves the clients, databases
\* and flags of the serving engine as they were.
C17_UpdateFeedsNextSetup ==
    /\ []((last.op = "main" /\ ~last.raised /\ local = {}) => Stored)
    /\ [][Stored => Stored']_vars
    /\ [][(Stored /\ last'.op = "setup_clients" /\ ~should_force_update')
            => \A i \in 1..Len(last'.provs) : Fetches(last'.provs[i]) = 0]_vars
    /\ [][last'.op = "main" => UNCHANGED engine]_vars

C17_Witness ==
    /\ last.op = "setup_clients"
    /\ ~last.raised
    /\ ~should_force_update
    /\ ~should_save
    /\ local = {}
    /\ Len(clients) = Len(IP_TYPES)
    /\ \A p \in Provs : /\ Fetches(p) = 0
                        /\ p.blob_before = Data(p.url, "new")
                        /\ p.materialized = p.blob_before

\* C18: every descriptor setup_clients stores holds, field by field, the
\* configured setting when there is one and the built-in default otherwise,
\* and a setup_clients whose families all have their three settings
\* configured does not fail with a KeyError, whatever the defaults mapping.
C18_SettingsWinOverDefaults ==
    last.op = "setup_clients"
        => /\ \A i \in 1..Len(databases) :
                 databases[i] = [f \in Fields |->
                                   SettingsGet(Key(last.ip_types[i], f), DEFAULTS)]
           /\ (\A i \in 1..Len(last.ip_types) : \A f \in Fields :
                  Key(last.ip_types[i], f) \in DOMAIN settings)
                 => last.error # "KeyError"

C20_ForceFlagMonotonic ==
    /\ [](last.op = "init" => ~should_force_update)
    /\ [][(should_force_update /\ last'.op # "init") => should_force_update']_vars
    /\ [][(~should_force_update /\ should_force_update')
            => (last'.op = "force_update" /\ clients = <<>>
                   /\ last'.error # GuardMessage)]_vars
    /\ []((last.op = "force_update" /\ last.error # GuardMessage)
            => should_force_update)
    /\ []((last.op = "setup_clients" /\ should_force_update)
            => \A p \in Provs :
                  /\ p.force
                  /\ ~p.local_exists => Fetches(p) = 1)

C20_Witness ==
    /\ last.op = "setup_clients"
    /\ should_force_update
    /\ clients # <<>>
    /\ databases # <<>>
    /\ ~last.was_populated
    /\ \E p \in Provs : /\ p.blob_before # NoBlob
                        /\ Fetches(p) = 1
                        /\ ~p.raised

====
